---- MODULE Spec2Model ----
(***************************************************************************)
(* The raster-pipeline stage list, linker (build_pipeline) and executor    *)
(* entry (skia_pipe_raster_run_pipeline) of skia-pipeline.                 *)
(*                                                                         *)
(* Memory is modelled by two regions: the arena of StageList nodes and the *)
(* caller's program buffer of void* slots.  A slot holds a function        *)
(* pointer of one tier, a tier's just_return sentinel, a context pointer,  *)
(* or whatever the caller's allocation held before (junk).                 *)
(***************************************************************************)
EXTENDS Integers, Sequences, FiniteSets, TLC

\* ---------------------------------------------------------------- bounds

\* Nodes the caller allocates at most.
MaxNodes == 3

\* Slots of the caller's buffer: the documented worst case 2*stageCount+1.
BufSlots == 2 * MaxNodes + 1

\* The ip the caller passes: one past the end of the buffer (slots 1..BufSlots).
bufferEnd == BufSlots + 1

\* Stages of the lists the executor's specification draws.
MaxRunStages == 2

\* The width in bits the model gives unsigned int (32 in the build).
UIntBits == 4

\* The batch widths of the two tiers (fixed by the build; lowp's is the wider).
N_highp == 2
N_lowp == 4

\* The largest width and height the caller passes.
MaxW == 5
MaxH == 2

\* Nodes of the arena that builds running at the same time read.
MaxConcNodes == 2

\* Runs of one program that are followed.
MaxRuns == 2

\* ------------------------------------------------------------ the values

\* A null pointer (StageList::prev of the first node, StageList::ctx of a
\* stage without context).
NULL == 0

\* The StockStage values the model draws stages from.
StockStage == {"load_src", "store_dst"}

Tiers == {"lowp", "highp"}

Slot(tag, tier, stage, ctx) == [tag |-> tag, tier |-> tier, stage |-> stage, ctx |-> ctx]

\* What an untouched slot of the caller's buffer holds.
Junk == Slot("junk", "none", "none", NULL)

\* A null StageFn: a stage without an implementation in a tier.
NullFn == Slot("null", "none", "none", NULL)

\* (void*)st->ctx
CtxSlot(p) == Slot("ctx", "none", "none", p)

VARIABLES
    nodes,      \* the StageList nodes allocated so far; a list is a node index or NULL
    lowp_impl,  \* the stages whose stages_lowp entry is not null
    buf,        \* the caller's buffer, slots 1..BufSlots
    appended,   \* what the last append was given and returned
    prog,       \* what the last skia_pipe_raster_build_pipeline was given and returned
    pc,         \* where the executor is: "idle", "rows", "returned"
    call,       \* the arguments of the last skia_pipe_raster_run_pipeline
    entered,    \* the entry points it invoked, each with the arguments it passed
    dx, dy,     \* start_pipeline's cursor
    chunks,     \* the chunks start_pipeline has run so far in this call
    bufs,       \* the buffers that builds running at the same time write
    th,         \* those builds: each one's list, buffer, position, st and ip
    ran         \* the runs of the program built last: how many, and what the first replayed

vars == <<nodes, appended, lowp_impl, buf, prog, pc, call, entered, dx, dy, chunks,
          bufs, th, ran>>

linkVars == <<nodes, appended, lowp_impl, buf, prog>>
execVars == <<pc, call, entered, dx, dy, chunks>>
concVars == <<bufs, th>>

\* ------------------------------------------------------- the stage table

stages_highp(st) == Slot("fn", "highp", st, NULL)

just_return_highp == Slot("ret", "highp", "none", NULL)

start_pipeline_highp == "start_pipeline_highp"

stages_lowp(st) == IF st \in lowp_impl THEN Slot("fn", "lowp", st, NULL) ELSE NullFn

just_return_lowp == Slot("ret", "lowp", "none", NULL)

start_pipeline_lowp == "start_pipeline_lowp"

\* ------------------------------------------------------------ the linker

\* *--ip = v: the slots and the cursor after the store.
Push(m, v) == [b |-> [m.b EXCEPT ![m.ip - 1] = v], ip |-> m.ip - 1]

\* Fault variant of PushCtx: a slot is stored for an absent context too.
PushCtx_always(m, node) == Push(m, CtxSlot(node.ctx))

\* if (st->ctx) { *--ip = st->ctx; }
PushCtx(m, node) == IF node.ctx # NULL THEN Push(m, CtxSlot(node.ctx)) ELSE m

\* Fault variant of lowp_loop: a stage without a lowp function is skipped
\* (continue) and the attempt goes on.
RECURSIVE lowp_loop_skip(_, _, _, _)
lowp_loop_skip(nd, st, m, reset_point) ==
    IF st = NULL THEN m
    ELSE LET fn == stages_lowp(nd[st].stage) IN
         IF fn # NullFn
         THEN lowp_loop_skip(nd, nd[st].prev, Push(PushCtx(m, nd[st]), fn), reset_point)
         ELSE lowp_loop_skip(nd, nd[st].prev, m, reset_point)

\* The lowp loop: every stage's context and lowp function, or the cursor
\* back at reset_point at the first stage without a lowp function.
RECURSIVE lowp_loop(_, _, _, _)
lowp_loop(nd, st, m, reset_point) ==
    IF st = NULL THEN m
    ELSE LET fn == stages_lowp(nd[st].stage) IN
         IF fn # NullFn
         THEN lowp_loop(nd, nd[st].prev, Push(PushCtx(m, nd[st]), fn), reset_point)
         ELSE [b |-> m.b, ip |-> reset_point]

\* Fault variant of highp_loop: the function is stored before the context,
\* so that reading forward the context comes first.
RECURSIVE highp_loop_fn_first(_, _, _)
highp_loop_fn_first(nd, st, m) ==
    IF st = NULL THEN m
    ELSE highp_loop_fn_first(nd, nd[st].prev,
                             PushCtx(Push(m, stages_highp(nd[st].stage)), nd[st]))

\* Fault variant of highp_loop: a slot is left for the context of a stage
\* that has none, the cursor moved without a store.
RECURSIVE highp_loop_reserve(_, _, _)
highp_loop_reserve(nd, st, m) ==
    IF st = NULL THEN m
    ELSE highp_loop_reserve(nd, nd[st].prev,
                            Push(IF nd[st].ctx # NULL THEN PushCtx(m, nd[st])
                                 ELSE [b |-> m.b, ip |-> m.ip - 1],
                                 stages_highp(nd[st].stage)))

\* The highp loop: every stage's context and highp function.
RECURSIVE highp_loop(_, _, _)
highp_loop(nd, st, m) ==
    IF st = NULL THEN m
    ELSE highp_loop(nd, nd[st].prev, Push(PushCtx(m, nd[st]), stages_highp(nd[st].stage)))

\* Fault variant of build_pipeline: the lowp attempt never returns, the highp
\* attempt always follows it.
build_pipeline_no_return(nd, b, stages, ip) ==
    LET reset_point == ip
        lo == lowp_loop(nd, stages, Push([b |-> b, ip |-> ip], just_return_lowp), reset_point)
        hi == highp_loop(nd, stages, Push([b |-> lo.b, ip |-> reset_point], just_return_highp))
    IN [b |-> hi.b, ip |-> hi.ip, fn |-> start_pipeline_highp, tried |-> <<"lowp", "highp">>]

\* Fault variant of build_pipeline: the lowp attempt counts as failed when the
\* cursor is where it was before the loop, the sentinel already stored.
build_pipeline_test_after_sentinel(nd, b, stages, ip) ==
    LET reset_point == ip
        first == Push([b |-> b, ip |-> ip], just_return_lowp)
        lo == lowp_loop(nd, stages, first, first.ip)
    IN IF lo.ip # first.ip
       THEN [b |-> lo.b, ip |-> lo.ip, fn |-> start_pipeline_lowp, tried |-> <<"lowp">>]
       ELSE LET hi == highp_loop(nd, stages,
                                 Push([b |-> lo.b, ip |-> reset_point], just_return_highp))
            IN [b |-> hi.b, ip |-> hi.ip, fn |-> start_pipeline_highp,
                tried |-> <<"lowp", "highp">>]

\* Fault variant of build_pipeline: after a lowp attempt given up the highp
\* attempt starts one slot below reset_point, past the lowp sentinel.
build_pipeline_restart_below(nd, b, stages, ip) ==
    LET reset_point == ip
        lo == lowp_loop(nd, stages, Push([b |-> b, ip |-> ip], just_return_lowp), reset_point)
    IN IF lo.ip # reset_point
       THEN [b |-> lo.b, ip |-> lo.ip, fn |-> start_pipeline_lowp, tried |-> <<"lowp">>]
       ELSE LET hi == highp_loop(nd, stages,
                                 Push([b |-> lo.b, ip |-> lo.ip - 1], just_return_highp))
            IN [b |-> hi.b, ip |-> hi.ip, fn |-> start_pipeline_highp,
                tried |-> <<"lowp", "highp">>]

\* Fault variant of build_pipeline: when the buffer already ends in the highp
\* sentinel the lowp attempt is not made.
build_pipeline_sticky_highp(nd, b, stages, ip) ==
    LET reset_point == ip
        lo == lowp_loop(nd, stages, Push([b |-> b, ip |-> ip], just_return_lowp), reset_point)
    IN IF lo.ip # reset_point /\ b[ip - 1] # just_return_highp
       THEN [b |-> lo.b, ip |-> lo.ip, fn |-> start_pipeline_lowp, tried |-> <<"lowp">>]
       ELSE LET hi == highp_loop(nd, stages,
                                 Push([b |-> lo.b, ip |-> reset_point], just_return_highp))
            IN [b |-> hi.b, ip |-> hi.ip, fn |-> start_pipeline_highp,
                tried |-> <<"lowp", "highp">>]

\* build_pipeline(stages, ip) on the buffer b: the buffer afterwards, the
\* cursor it stopped at, the entry point it returns, and the attempts it made.
build_pipeline(nd, b, stages, ip) ==
    LET reset_point == ip
        lo == lowp_loop(nd, stages, Push([b |-> b, ip |-> ip], just_return_lowp), reset_point)
    IN IF lo.ip # reset_point
       THEN [b |-> lo.b, ip |-> lo.ip, fn |-> start_pipeline_lowp, tried |-> <<"lowp">>]
       ELSE LET hi == highp_loop(nd, stages, Push([b |-> lo.b, ip |-> lo.ip], just_return_highp))
            IN [b |-> hi.b, ip |-> hi.ip, fn |-> start_pipeline_highp,
                tried |-> <<"lowp", "highp">>]

\* ------------------------------------------------------------ operations

NoCall == [program |-> 0, is_highp |-> FALSE, x |-> 0, y |-> 0, w |-> 0, h |-> 0]

\* The buffer as the caller allocates it, and no program built yet.
FreshBuf == [i \in 1..BufSlots |-> Junk]
NoProg == [stages |-> NULL, start |-> bufferEnd, is_highp |-> FALSE, tried |-> <<>>]

\* No run of a program yet.
NoRuns == [runs |-> 0, first |-> <<>>]

\* No append yet.
NoAppend == [priorList |-> NULL, kind |-> "none", params |-> NULL, newList |-> NULL]

Init ==
    /\ nodes = <<>>
    /\ appended = NoAppend
    /\ lowp_impl \in SUBSET StockStage
    /\ buf = FreshBuf
    /\ prog = NoProg
    /\ pc = "idle"
    /\ call = NoCall
    /\ entered = <<>>
    /\ dx = 0
    /\ dy = 0
    /\ chunks = <<>>
    /\ bufs = <<>>
    /\ th = <<>>
    /\ ran = NoRuns

\* Fault variant of append: the new node is linked to the node allocated
\* last, whatever priorList is.
append_to_latest(priorList, kind, params) ==
    /\ pc # "rows"
    /\ Len(nodes) < MaxNodes
    /\ nodes' = Append(nodes, [prev |-> Len(nodes), stage |-> kind, ctx |-> params])
    /\ appended' = [priorList |-> priorList, kind |-> kind, params |-> params,
                    newList |-> Len(nodes) + 1]
    /\ UNCHANGED <<lowp_impl, buf, prog>>
    /\ UNCHANGED execVars

\* The caller allocates one node in front of priorList; params is absent or
\* the node's own parameter block.
append(priorList, kind, params) ==
    /\ pc # "rows"
    /\ Len(nodes) < MaxNodes
    /\ nodes' = Append(nodes, [prev |-> priorList, stage |-> kind, ctx |-> params])
    /\ appended' = [priorList |-> priorList, kind |-> kind, params |-> params,
                    newList |-> Len(nodes) + 1]
    /\ UNCHANGED <<lowp_impl, buf, prog>>
    /\ UNCHANGED execVars

\* The nodes of list l.
RECURSIVE ChainOf(_, _)
ChainOf(nd, l) == IF l = NULL THEN {} ELSE {l} \cup ChainOf(nd, nd[l].prev)

\* The list l reversed in place: every node of it points to its successor.
Reversed(nd, l) ==
    [i \in DOMAIN nd |->
        IF i \in ChainOf(nd, l)
        THEN [nd[i] EXCEPT !.prev = IF i = l THEN NULL
                                    ELSE CHOOSE j \in ChainOf(nd, l) : nd[j].prev = i]
        ELSE nd[i]]

\* Fault variant of skia_pipe_raster_build_pipeline: the list is put in
\* execution order by reversing it in place.
skia_pipe_raster_build_pipeline_reversing(stages) ==
    /\ pc # "rows"
    /\ LET r == build_pipeline(nodes, buf, stages, bufferEnd) IN
         /\ buf' = r.b
         /\ prog' = [stages |-> stages, start |-> r.ip,
                     is_highp |-> (r.fn = start_pipeline_highp), tried |-> r.tried]
    /\ nodes' = Reversed(nodes, stages)
    /\ pc' = "idle"
    /\ call' = NoCall
    /\ entered' = <<>>
    /\ dx' = 0
    /\ dy' = 0
    /\ chunks' = <<>>
    /\ UNCHANGED <<appended, lowp_impl>>

\* bool skia_pipe_raster_build_pipeline(StageList *stages, void** ip), called
\* with ip at the end of the caller's buffer.  The record of the last run is
\* of the program now overwritten, and is dropped.
skia_pipe_raster_build_pipeline(stages) ==
    /\ pc # "rows"
    /\ LET r == build_pipeline(nodes, buf, stages, bufferEnd) IN
         /\ buf' = r.b
         /\ prog' = [stages |-> stages, start |-> r.ip,
                     is_highp |-> (r.fn = start_pipeline_highp), tried |-> r.tried]
    /\ pc' = "idle"
    /\ call' = NoCall
    /\ entered' = <<>>
    /\ dx' = 0
    /\ dy' = 0
    /\ chunks' = <<>>
    /\ UNCHANGED <<nodes, appended, lowp_impl>>

Lists == 0..Len(nodes)

\* The parameter blocks: block i belongs to node i.
Params(i) == {NULL, i}

Next ==
    \/ \E l \in Lists, k \in StockStage, p \in Params(Len(nodes) + 1) :
          append(l, k, p) /\ UNCHANGED <<concVars, ran>>
    \/ \E l \in Lists : skia_pipe_raster_build_pipeline(l) /\ UNCHANGED <<concVars, ran>>

Spec == Init /\ [][Next]_vars

\* ---------------------------------------------------------- the executor
\*
\* skia_pipe_raster_run_pipeline is the code of SkRasterPipeline.cpp.  The
\* tiers' start_pipeline, stage functions and just_return come from
\* SkRasterPipeline_opts.h; their row and chunk iteration and the replay of
\* a program follow the executor's contract (rows y0..y1 top to bottom,
\* batch-wide chunks, one tail chunk for the remainder, tail jump from entry
\* to entry up to the sentinel).

UIntMod == 2 ^ UIntBits
UINT_MAX == UIntMod - 1

\* Fault variant of UAdd: the sum taken in a wider type, without the wrap.
UAdd_wide(a, b) == a + b

\* unsigned int arithmetic: x+w and y+h wrap.
UAdd(a, b) == (a + b) % UIntMod

\* A call of a tier's start_pipeline(x0, y0, x1, y1, program).
Enter(fn, x0, y0, x1, y1, program) ==
    [fn |-> fn, x0 |-> x0, y0 |-> y0, x1 |-> x1, y1 |-> y1, program |-> program]

\* Fault variant of run_pipeline: the two branches exchanged.
run_pipeline_swapped(program, is_highp, x, y, w, h) ==
    IF is_highp
    THEN <<Enter(start_pipeline_lowp, x, y, UAdd(x, w), UAdd(y, h), program)>>
    ELSE <<Enter(start_pipeline_highp, x, y, UAdd(x, w), UAdd(y, h), program)>>

\* Fault variant of run_pipeline: the width and height passed as the far edges.
run_pipeline_extent(program, is_highp, x, y, w, h) ==
    IF is_highp
    THEN <<Enter(start_pipeline_highp, x, y, w, h, program)>>
    ELSE <<Enter(start_pipeline_lowp, x, y, w, h, program)>>

\* Fault variant of run_pipeline: the far edges taken as inclusive.
run_pipeline_inclusive(program, is_highp, x, y, w, h) ==
    IF is_highp
    THEN <<Enter(start_pipeline_highp, x, y, UAdd(x, w + 1), UAdd(y, h + 1), program)>>
    ELSE <<Enter(start_pipeline_lowp, x, y, UAdd(x, w + 1), UAdd(y, h + 1), program)>>

\* The body of skia_pipe_raster_run_pipeline: the entry points it calls.
run_pipeline(program, is_highp, x, y, w, h) ==
    IF is_highp
    THEN <<Enter(start_pipeline_highp, x, y, UAdd(x, w), UAdd(y, h), program)>>
    ELSE <<Enter(start_pipeline_lowp, x, y, UAdd(x, w), UAdd(y, h), program)>>

\* Fault variant of skia_pipe_raster_run_pipeline: the call consumes the
\* program, clearing the slot it enters at.
skia_pipe_raster_run_pipeline_consuming(program, is_highp, x, y, w, h) ==
    /\ pc # "rows"
    /\ call' = [program |-> program, is_highp |-> is_highp, x |-> x, y |-> y, w |-> w, h |-> h]
    /\ entered' = run_pipeline(program, is_highp, x, y, w, h)
    /\ pc' = "rows"
    /\ dx' = x
    /\ dy' = y
    /\ chunks' = <<>>
    /\ buf' = [buf EXCEPT ![program] = NullFn]
    /\ UNCHANGED <<nodes, appended, lowp_impl, prog>>

\* void skia_pipe_raster_run_pipeline(program, is_highp, x, y, w, h)
skia_pipe_raster_run_pipeline(program, is_highp, x, y, w, h) ==
    /\ pc # "rows"
    /\ call' = [program |-> program, is_highp |-> is_highp, x |-> x, y |-> y, w |-> w, h |-> h]
    /\ entered' = run_pipeline(program, is_highp, x, y, w, h)
    /\ pc' = "rows"
    /\ dx' = x
    /\ dy' = y
    /\ chunks' = <<>>
    /\ UNCHANGED linkVars

\* The entry point running.
Cur == entered[1]

\* The batch width of the tier whose start_pipeline runs.
N == IF Cur.fn = start_pipeline_highp THEN N_highp ELSE N_lowp

\* One replay of the program from the slot ip: each stage function is called
\* with the context slot that follows it, when one does, and calls the next
\* entry; the sentinel returns.
RECURSIVE replay(_, _)
replay(b, ip) ==
    IF ip \notin 1..BufSlots THEN [invoked |-> <<>>, ret |-> "undefined"]
    ELSE IF b[ip].tag = "ret" THEN [invoked |-> <<>>, ret |-> b[ip].tier]
    ELSE IF b[ip].tag = "fn"
    THEN LET hasCtx == ip + 1 \in 1..BufSlots /\ b[ip + 1].tag = "ctx"
             rest == replay(b, IF hasCtx THEN ip + 2 ELSE ip + 1)
         IN [invoked |-> <<[stage |-> b[ip].stage, tier |-> b[ip].tier,
                            ctx |-> IF hasCtx THEN b[ip + 1].ctx ELSE NULL]>>
                         \o rest.invoked,
             ret |-> rest.ret]
    ELSE [invoked |-> <<>>, ret |-> "undefined"]

\* The chunk at (x, y) with `lanes` active lanes.
Chunk(y, x, lanes) ==
    LET r == replay(buf, Cur.program)
    IN [y |-> y, x |-> x, lanes |-> lanes, invoked |-> r.invoked, ret |-> r.ret]

\* A chunk of the full batch width.
full_chunk ==
    /\ pc = "rows"
    /\ dy < Cur.y1
    /\ dx + N <= Cur.x1
    /\ chunks' = Append(chunks, Chunk(dy, dx, N))
    /\ dx' = dx + N
    /\ UNCHANGED <<pc, call, entered, dy>>
    /\ UNCHANGED linkVars

\* The remainder of the row, narrower than a batch; the row ends.
tail_chunk ==
    /\ pc = "rows"
    /\ dy < Cur.y1
    /\ dx + N > Cur.x1
    /\ dx < Cur.x1
    /\ chunks' = Append(chunks, Chunk(dy, dx, Cur.x1 - dx))
    /\ dx' = Cur.x0
    /\ dy' = dy + 1
    /\ UNCHANGED <<pc, call, entered>>
    /\ UNCHANGED linkVars

\* The row ends without a remainder.
next_row ==
    /\ pc = "rows"
    /\ dy < Cur.y1
    /\ dx + N > Cur.x1
    /\ dx >= Cur.x1
    /\ dx' = Cur.x0
    /\ dy' = dy + 1
    /\ UNCHANGED <<pc, call, entered, chunks>>
    /\ UNCHANGED linkVars

\* Past the last row: start_pipeline and the call return.
return ==
    /\ pc = "rows"
    /\ dy >= Cur.y1
    /\ pc' = "returned"
    /\ UNCHANGED <<call, entered, dx, dy, chunks>>
    /\ UNCHANGED linkVars

\* A list of n stages appended one after the other.
Chain(n, kinds, withCtx) ==
    [i \in 1..n |-> [prev |-> i - 1, stage |-> kinds[i],
                     ctx |-> IF withCtx[i] THEN i ELSE NULL]]

InitExec ==
    /\ \E n \in 0..MaxRunStages :
         \E kinds \in [1..n -> StockStage], withCtx \in [1..n -> BOOLEAN] :
            /\ nodes = Chain(n, kinds, withCtx)
            /\ appended = IF n = 0 THEN NoAppend
                          ELSE [priorList |-> n - 1, kind |-> kinds[n],
                                params |-> IF withCtx[n] THEN n ELSE NULL, newList |-> n]
    /\ lowp_impl \in SUBSET StockStage
    /\ buf = FreshBuf
    /\ prog = NoProg
    /\ pc = "idle"
    /\ call = NoCall
    /\ entered = <<>>
    /\ dx = 0
    /\ dy = 0
    /\ chunks = <<>>
    /\ bufs = <<>>
    /\ th = <<>>
    /\ ran = NoRuns

Xs == {0, 1, UINT_MAX}
Ys == {0, UINT_MAX}

NextExec ==
    \/ skia_pipe_raster_build_pipeline(Len(nodes)) /\ UNCHANGED <<concVars, ran>>
    \/ /\ prog.start < bufferEnd
       /\ \E x \in Xs, y \in Ys, w \in 0..MaxW, h \in 0..MaxH :
            skia_pipe_raster_run_pipeline(prog.start, prog.is_highp, x, y, w, h)
       /\ UNCHANGED <<concVars, ran>>
    \/ full_chunk /\ UNCHANGED <<concVars, ran>>
    \/ tail_chunk /\ UNCHANGED <<concVars, ran>>
    \/ next_row /\ UNCHANGED <<concVars, ran>>
    \/ return /\ UNCHANGED <<concVars, ran>>

SpecExec == InitExec /\ [][NextExec]_vars

\* ------------------------------------------------------------ properties

\* The stages of list l in append order (first-appended first).
RECURSIVE ListSeq(_, _)
ListSeq(nd, l) == IF l = NULL THEN <<>> ELSE Append(ListSeq(nd, nd[l].prev), nd[l])

\* The program the buffer b holds from slot start to bufferEnd.
Region(b, start) == [i \in 1..(bufferEnd - start) |-> b[start + i - 1]]

\* Some stage of list l has no stages_lowp entry.
HasMissing(nd, l) == \E i \in ChainOf(nd, l) : nd[i].stage \notin lowp_impl

TierOf(is_highp) == IF is_highp THEN "highp" ELSE "lowp"

\* The program of a stage sequence in a tier: each stage's function, its
\* context if it has one, and the tier's sentinel last.
RECURSIVE Flat(_, _)
Flat(seq, tier) ==
    IF seq = <<>> THEN <<Slot("ret", tier, "none", NULL)>>
    ELSE <<Slot("fn", tier, Head(seq).stage, NULL)>>
         \o (IF Head(seq).ctx # NULL THEN <<CtxSlot(Head(seq).ctx)>> ELSE <<>>)
         \o Flat(Tail(seq), tier)

\* The stages named by the function pointers of a program, in slot order.
RECURSIVE FnStages(_)
FnStages(r) ==
    IF r = <<>> THEN <<>>
    ELSE (IF Head(r).tag = "fn" THEN <<Head(r).stage>> ELSE <<>>) \o FnStages(Tail(r))

\* The kinds of a stage sequence.
RECURSIVE Kinds(_)
Kinds(seq) == IF seq = <<>> THEN <<>> ELSE <<Head(seq).stage>> \o Kinds(Tail(seq))

\* A build has returned.
Built == prog.tried # <<>>

BuiltSeq == ListSeq(nodes, prog.stages)
Program == Region(buf, prog.start)

\* C1: a list with a stage whose stages_lowp entry is missing, wherever it
\* is, builds to the highp entry point (the flag is true), and the function
\* pointers of the program read from start to bufferEnd name the stages in
\* append order.
C1_MissingLowpSelectsHighp ==
    (Built /\ HasMissing(nodes, prog.stages)) =>
        /\ prog.is_highp
        /\ FnStages(Program) = Kinds(BuiltSeq)

\* A three-stage list whose first-appended stage alone has no lowp function:
\* the lowp attempt stored two stages before it gave up.
C1_Witness ==
    /\ Built
    /\ Len(BuiltSeq) = 3
    /\ BuiltSeq[1].stage \notin lowp_impl
    /\ BuiltSeq[2].stage \in lowp_impl
    /\ BuiltSeq[3].stage \in lowp_impl
    /\ prog.is_highp

\* C2: a list all of whose stages have a stages_lowp entry builds to the lowp
\* entry point (the flag is false) and the highp attempt is not started: lowp
\* is the only attempt made and the program holds no highp entry.
C2_AllLowpSelectsLowp ==
    (Built /\ ~HasMissing(nodes, prog.stages)) =>
        /\ ~prog.is_highp
        /\ prog.tried = <<"lowp">>
        /\ \A i \in DOMAIN Program : Program[i].tier # "highp"

C2_Witness ==
    /\ Built
    /\ Len(BuiltSeq) = 3
    /\ ~HasMissing(nodes, prog.stages)
    /\ \E i \in 1..3 : BuiltSeq[i].ctx # NULL
    /\ ~prog.is_highp

\* C3: in either tier the program from start to bufferEnd is, for each stage
\* in append order, the stage's function of the selected tier followed by its
\* context exactly when it has one, and then the tier's sentinel in slot
\* bufferEnd-1; A(p1), B(absent), C(p2) gives [A, p1, B, C, p2, sentinel].
C3_ProgramLayout ==
    Built =>
        /\ Program = Flat(BuiltSeq, TierOf(prog.is_highp))
        /\ buf[bufferEnd - 1] = Slot("ret", TierOf(prog.is_highp), "none", NULL)
        /\ (/\ Len(BuiltSeq) = 3
            /\ BuiltSeq[1].ctx # NULL
            /\ BuiltSeq[2].ctx = NULL
            /\ BuiltSeq[3].ctx # NULL)
           => LET t == TierOf(prog.is_highp) IN
              Program = << Slot("fn", t, BuiltSeq[1].stage, NULL), CtxSlot(BuiltSeq[1].ctx),
                           Slot("fn", t, BuiltSeq[2].stage, NULL),
                           Slot("fn", t, BuiltSeq[3].stage, NULL), CtxSlot(BuiltSeq[3].ctx),
                           Slot("ret", t, "none", NULL) >>

\* A(p1), B(absent), C(p2) with p1 # p2, built in the highp tier.
C3_Witness ==
    /\ Built
    /\ Len(BuiltSeq) = 3
    /\ BuiltSeq[1].ctx # NULL
    /\ BuiltSeq[2].ctx = NULL
    /\ BuiltSeq[3].ctx # NULL
    /\ BuiltSeq[1].ctx # BuiltSeq[3].ctx
    /\ BuiltSeq[1].stage # BuiltSeq[2].stage
    /\ prog.is_highp
    /\ prog.start = bufferEnd - 6

\* C4: the empty (null) list builds to a program of one slot, the lowp
\* sentinel at bufferEnd-1, and lowp is reported: the sentinel moved the
\* cursor, so the test against reset_point does not fire.
C4_EmptyListIsLowpSentinel ==
    (Built /\ prog.stages = NULL) =>
        /\ prog.start = bufferEnd - 1
        /\ Program = <<just_return_lowp>>
        /\ ~prog.is_highp
        /\ prog.tried = <<"lowp">>

\* The empty list built although no stage has a lowp function, over the
\* remains of an earlier program.
C4_Witness ==
    /\ Built
    /\ prog.stages = NULL
    /\ lowp_impl = {}
    /\ buf[bufferEnd - 2] # Junk

\* C5: a build writes to no node, and its program and tier are those of its
\* own list alone, whatever other lists sharing its nodes were built before.
C5_BuildLeavesNodesAlone ==
    [][(appended' = appended /\ prog'.tried # <<>>) =>
          /\ nodes' = nodes
          /\ prog'.is_highp = HasMissing(nodes, prog'.stages)
          /\ Region(buf', prog'.start)
               = Flat(ListSeq(nodes, prog'.stages), TierOf(prog'.is_highp))]_vars

\* The list just built shares a node with a longer list, and the slots below
\* the program still hold the head of that list's program, built before.
C5_Witness ==
    /\ Built
    /\ prog.stages # NULL
    /\ \E l \in Lists :
         /\ l # prog.stages
         /\ ChainOf(nodes, l) \cap ChainOf(nodes, prog.stages) # {}
         /\ LET other == Flat(ListSeq(nodes, l), TierOf(HasMissing(nodes, l)))
                first == bufferEnd - Len(other)
            IN /\ first < prog.start
               /\ \A i \in first..(prog.start - 1) : buf[i] = other[i - first + 1]

\* C6: an append allocates exactly one node, whose predecessor is priorList,
\* and changes no node there was: every list there was denotes the stage
\* sequence it denoted, and the new list is priorList's followed by the stage.
C6_AppendIsPersistent ==
    [][(appended' # appended) =>
          /\ Len(nodes') = Len(nodes) + 1
          /\ appended'.newList = Len(nodes')
          /\ nodes'[Len(nodes')] = [prev |-> appended'.priorList, stage |-> appended'.kind,
                                    ctx |-> appended'.params]
          /\ \A i \in 1..Len(nodes) : nodes'[i] = nodes[i]
          /\ \A l \in 0..Len(nodes) : ListSeq(nodes', l) = ListSeq(nodes, l)
          /\ ListSeq(nodes', appended'.newList)
               = Append(ListSeq(nodes, appended'.priorList), nodes'[Len(nodes')])]_vars

\* Two appends onto the same list: nodes 2 and 3 both follow node 1.
C6_Witness ==
    /\ Len(nodes) = 3
    /\ nodes[2].prev = 1
    /\ nodes[3].prev = 1
    /\ appended.newList = 3
    /\ ListSeq(nodes, 2) = <<nodes[1], nodes[2]>>
    /\ ListSeq(nodes, 3) = <<nodes[1], nodes[3]>>

\* A run has been started on the program last built.
Running == pc # "idle"

\* The tier of the entry point invoked.
EnteredTier == IF entered[1].fn = start_pipeline_highp THEN "highp" ELSE "lowp"

\* C7: run with the flag build returned invokes exactly one entry point, of
\* the tier of the program's function pointers and sentinel (highp iff the
\* flag is true), with the program pointer unchanged and the rectangle
\* (x, y, x+w, y+h), x+w and y+h being the unsigned int sums the code takes.
C7_RunEntersTheBuiltTier ==
    Running =>
        /\ Len(entered) = 1
        /\ call.is_highp = prog.is_highp
        /\ (entered[1].fn = start_pipeline_highp) <=> call.is_highp
        /\ entered[1].fn \in {start_pipeline_highp, start_pipeline_lowp}
        /\ \A i \in DOMAIN Program :
              Program[i].tag \in {"fn", "ret"} => Program[i].tier = EnteredTier
        /\ Program[Len(Program)] = Slot("ret", EnteredTier, "none", NULL)
        /\ entered[1].program = prog.start
        /\ entered[1].program = call.program
        /\ entered[1].x0 = call.x
        /\ entered[1].y0 = call.y
        /\ entered[1].x1 = (call.x + call.w) % (2 ^ UIntBits)
        /\ entered[1].y1 = (call.y + call.h) % (2 ^ UIntBits)

\* A highp program with a stage run over a rectangle off the origin.
C7_Witness ==
    /\ pc = "returned"
    /\ prog.is_highp
    /\ prog.stages # NULL
    /\ call.x = 1
    /\ call.w > 0
    /\ call.h > 0
    /\ entered[1].fn = start_pipeline_highp
    /\ chunks # <<>>

\* The chunks run in row y.
RowChunks(y) == {i \in DOMAIN chunks : chunks[i].y = y}

\* The rectangle {x, y, w, h} lies within unsigned int: its far edges are
\* x+w and y+h.
NoWrap == call.x + call.w <= UINT_MAX /\ call.y + call.h <= UINT_MAX

\* The batch width of the tier of the call.
S == IF call.is_highp THEN N_highp ELSE N_lowp

\* C8: a finished run of a non-empty program over a rectangle of width W has
\* run, in every row, floor(W/S) chunks of the full width S, then one tail
\* chunk of W mod S lanes if W mod S > 0 and none otherwise; every chunk has
\* between 1 and S active lanes.
C8_ChunksPerRow ==
    (pc = "returned" /\ prog.stages # NULL /\ NoWrap) =>
        /\ \A i \in DOMAIN chunks :
              /\ chunks[i].lanes \in 1..S
              /\ chunks[i].y \in call.y..(call.y + call.h - 1)
        /\ \A y \in call.y..(call.y + call.h - 1) :
              LET full == {i \in RowChunks(y) : chunks[i].lanes = S}
                  tail == RowChunks(y) \ full
              IN /\ Cardinality(full) = call.w \div S
                 /\ Cardinality(tail) = IF call.w % S > 0 THEN 1 ELSE 0
                 /\ \A i \in tail : chunks[i].lanes = call.w % S
                 /\ \A i \in tail, j \in full : j < i

\* Two rows of one full chunk and a tail, off the origin.
C8_Witness ==
    /\ pc = "returned"
    /\ prog.stages # NULL
    /\ NoWrap
    /\ call.x = 1
    /\ call.h = 2
    /\ call.w >= S
    /\ call.w % S > 0
    /\ Len(chunks) = 2 * (call.w \div S + 1)

\* What a replay of the list's program calls: each stage once, in append
\* order, in the tier t, with its own context.
RECURSIVE Calls(_, _)
Calls(seq, t) ==
    IF seq = <<>> THEN <<>>
    ELSE <<[stage |-> Head(seq).stage, tier |-> t, ctx |-> Head(seq).ctx]>>
         \o Calls(Tail(seq), t)

\* C9: every chunk replays the program from its first entry: each stage is
\* called once, in program order, with its own context if it has one, and
\* then the sentinel returns.  [load_src, store_dst], both in lowp, over
\* {0, 0, 4, 1} with a lowp batch of 4 or more is one chunk calling load_src,
\* then store_dst, then the sentinel.
C9_ChunkReplaysProgram ==
    /\ \A i \in DOMAIN chunks :
          /\ chunks[i].invoked = Calls(BuiltSeq, TierOf(prog.is_highp))
          /\ chunks[i].ret = TierOf(prog.is_highp)
    /\ (/\ pc = "returned"
        /\ Kinds(BuiltSeq) = <<"load_src", "store_dst">>
        /\ {"load_src", "store_dst"} \subseteq lowp_impl
        /\ call = [program |-> prog.start, is_highp |-> prog.is_highp,
                   x |-> 0, y |-> 0, w |-> 4, h |-> 1]
        /\ N_lowp >= 4)
       => /\ ~prog.is_highp
          /\ Len(chunks) = 1
          /\ chunks[1].lanes = 4
          /\ Kinds(chunks[1].invoked) = <<"load_src", "store_dst">>
          /\ chunks[1].ret = "lowp"

\* The scenario: [load_src, store_dst] without parameters run over {0,0,4,1}.
C9_Witness ==
    /\ pc = "returned"
    /\ BuiltSeq = <<[prev |-> NULL, stage |-> "load_src", ctx |-> NULL],
                    [prev |-> 1, stage |-> "store_dst", ctx |-> NULL]>>
    /\ call = [program |-> prog.start, is_highp |-> FALSE,
               x |-> 0, y |-> 0, w |-> 4, h |-> 1]
    /\ Len(chunks) = 1
    /\ Kinds(chunks[1].invoked) = <<"load_src", "store_dst">>

\* C10: the empty list's program run over a rectangle of width 0 or height 0
\* runs no chunk, so it calls no stage, and the call returns.
C10_EmptyOverZeroArea ==
    (Running /\ prog.stages = NULL /\ (call.w = 0 \/ call.h = 0)) =>
        /\ chunks = <<>>
        /\ (pc = "rows" => (ENABLED return \/ ENABLED next_row))

\* The empty program over two rows of width 0, returned.
C10_Witness ==
    /\ pc = "returned"
    /\ Built
    /\ prog.stages = NULL
    /\ call.w = 0
    /\ call.h = 2
    /\ chunks = <<>>

\* ------------------------------------------------------- C11..C18

\* A step of the running start_pipeline.
ExecStep == (full_chunk \/ tail_chunk \/ next_row \/ return) /\ UNCHANGED <<concVars, ran>>

\* A build, one run of the program built, and the steps of that run.
NextRun ==
    \/ skia_pipe_raster_build_pipeline(Len(nodes)) /\ UNCHANGED <<concVars, ran>>
    \/ /\ prog.start < bufferEnd
       /\ pc = "idle"
       /\ \E x \in Xs, y \in Ys, w \in 0..MaxW, h \in 0..MaxH :
            skia_pipe_raster_run_pipeline(prog.start, prog.is_highp, x, y, w, h)
       /\ UNCHANGED <<concVars, ran>>
    \/ full_chunk /\ UNCHANGED <<concVars, ran>>
    \/ tail_chunk /\ UNCHANGED <<concVars, ran>>
    \/ next_row /\ UNCHANGED <<concVars, ran>>
    \/ return /\ UNCHANGED <<concVars, ran>>

\* The call is synchronous and single-threaded: once entered, start_pipeline
\* keeps taking its steps.
SpecRunFair == InitExec /\ [][NextRun]_vars /\ WF_vars(ExecStep)

\* The chunks of row y that cover the pixel column col.
Covering(y, col) ==
    {i \in RowChunks(y) : chunks[i].x <= col /\ col < chunks[i].x + chunks[i].lanes}

\* The rows of the rectangle that are finished.
RowsDone == IF pc = "returned" THEN call.y..(call.y + call.h - 1) ELSE call.y..(dy - 1)

\* What holds of the chunks run so far in a call over a rectangle that does
\* not wrap: they lie in the rectangle, in increasing row order and, in a
\* row, in increasing column order; every column of a finished row is in
\* exactly one chunk; and while the call has not returned it can take a step.
RunInOrder ==
    (Running /\ NoWrap) =>
        /\ \A i \in DOMAIN chunks :
              /\ chunks[i].y \in call.y..(call.y + call.h - 1)
              /\ chunks[i].x >= call.x
              /\ chunks[i].x + chunks[i].lanes <= call.x + call.w
        /\ \A i, j \in DOMAIN chunks :
              i < j => \/ chunks[i].y < chunks[j].y
                       \/ (chunks[i].y = chunks[j].y /\ chunks[i].x < chunks[j].x)
        /\ \A y \in RowsDone : \A col \in call.x..(call.x + call.w - 1) :
              Cardinality(Covering(y, col)) = 1
        /\ (pc = "rows" => dy \in call.y..(call.y + call.h))
        /\ (pc = "rows" => ENABLED ExecStep)

\* C11: a run once started terminates, and up to then it has processed the
\* rows from y0 to y1 in increasing order, all chunks of a row before any of
\* the next, every pixel column of every row in exactly one chunk; it never
\* stops with rows or columns left.
C11_RunCompletes ==
    /\ []RunInOrder
    /\ (pc = "rows") ~> (pc = "returned")

\* Two rows of several chunks, off the origin, run to the end.
C11_Witness ==
    /\ pc = "returned"
    /\ NoWrap
    /\ prog.stages # NULL
    /\ call.x = 1
    /\ call.h = 2
    /\ call.w = MaxW
    /\ Len(chunks) >= 4
    /\ chunks[1].y = call.y
    /\ chunks[Len(chunks)].y = call.y + 1

\* ----------------------------------------------- builds at the same time
\*
\* build_pipeline statement by statement: a step is at most one store through
\* ip, with the reads of st and of the stage tables that lead to it.  Two
\* callers run it at the same time, each with its own stages, ip, st and
\* reset_point (they are parameters and locals), into the buffer `into`.

Threads == 1..2
Buffers == 1..2

\* A build about to start on list l with ip at the end of buffer b.
Start(l, b) ==
    [stages |-> l, into |-> b, pc |-> "lowp_sentinel", st |-> l, ip |-> bufferEnd,
     reset_point |-> bufferEnd, fn |-> "none", mixed |-> FALSE]

\* *--ip = v, then on to pc2 with st2.
Store(b, T, v, pc2, st2) ==
    [b |-> [b EXCEPT ![T.ip - 1] = v],
     T |-> [T EXCEPT !.ip = T.ip - 1, !.pc = pc2, !.st = st2],
     stored |-> TRUE]

\* A step without a store.
Move(b, T, pc2, fn) == [b |-> b, T |-> [T EXCEPT !.pc = pc2, !.fn = fn], stored |-> FALSE]

\* if (ip != reset_point) return start_pipeline_lowp; else the highp attempt.
after_lowp(b, T) ==
    IF T.ip # T.reset_point
    THEN Move(b, T, "done", start_pipeline_lowp)
    ELSE Move(b, T, "highp_sentinel", T.fn)

\* Fault variant of build_step: the highp attempt takes the sentinel slot as
\* already written and only moves the cursor past it.
build_step_keep_sentinel(nd, b, T) ==
    LET node == nd[T.st] IN
    CASE T.pc = "lowp_sentinel" ->
           Store(b, [T EXCEPT !.reset_point = T.ip], just_return_lowp, "lowp_loop", T.stages)
      [] T.pc = "lowp_loop" ->
           IF T.st = NULL THEN after_lowp(b, T)
           ELSE IF stages_lowp(node.stage) # NullFn
                THEN IF node.ctx # NULL
                     THEN Store(b, T, CtxSlot(node.ctx), "lowp_fn", T.st)
                     ELSE Store(b, T, stages_lowp(node.stage), "lowp_loop", node.prev)
                ELSE after_lowp(b, [T EXCEPT !.ip = T.reset_point])
      [] T.pc = "lowp_fn" -> Store(b, T, stages_lowp(node.stage), "lowp_loop", node.prev)
      [] T.pc = "highp_sentinel" -> Store(b, T, b[T.ip - 1], "highp_loop", T.stages)
      [] T.pc = "highp_loop" ->
           IF T.st = NULL THEN Move(b, T, "done", start_pipeline_highp)
           ELSE IF node.ctx # NULL
                THEN Store(b, T, CtxSlot(node.ctx), "highp_fn", T.st)
                ELSE Store(b, T, stages_highp(node.stage), "highp_loop", node.prev)
      [] T.pc = "highp_fn" -> Store(b, T, stages_highp(node.stage), "highp_loop", node.prev)

\* Fault variant of build_step: at a stage without a lowp function the loop
\* is left with the cursor where it is.
build_step_no_reset(nd, b, T) ==
    LET node == nd[T.st] IN
    CASE T.pc = "lowp_sentinel" ->
           Store(b, [T EXCEPT !.reset_point = T.ip], just_return_lowp, "lowp_loop", T.stages)
      [] T.pc = "lowp_loop" ->
           IF T.st = NULL THEN after_lowp(b, T)
           ELSE IF stages_lowp(node.stage) # NullFn
                THEN IF node.ctx # NULL
                     THEN Store(b, T, CtxSlot(node.ctx), "lowp_fn", T.st)
                     ELSE Store(b, T, stages_lowp(node.stage), "lowp_loop", node.prev)
                ELSE after_lowp(b, T)
      [] T.pc = "lowp_fn" -> Store(b, T, stages_lowp(node.stage), "lowp_loop", node.prev)
      [] T.pc = "highp_sentinel" -> Store(b, T, just_return_highp, "highp_loop", T.stages)
      [] T.pc = "highp_loop" ->
           IF T.st = NULL THEN Move(b, T, "done", start_pipeline_highp)
           ELSE IF node.ctx # NULL
                THEN Store(b, T, CtxSlot(node.ctx), "highp_fn", T.st)
                ELSE Store(b, T, stages_highp(node.stage), "highp_loop", node.prev)
      [] T.pc = "highp_fn" -> Store(b, T, stages_highp(node.stage), "highp_loop", node.prev)

\* The next step of the build T on the buffer b.
build_step(nd, b, T) ==
    LET node == nd[T.st] IN
    CASE T.pc = "lowp_sentinel" ->
           Store(b, [T EXCEPT !.reset_point = T.ip], just_return_lowp, "lowp_loop", T.stages)
      [] T.pc = "lowp_loop" ->
           IF T.st = NULL THEN after_lowp(b, T)
           ELSE IF stages_lowp(node.stage) # NullFn
                THEN IF node.ctx # NULL
                     THEN Store(b, T, CtxSlot(node.ctx), "lowp_fn", T.st)
                     ELSE Store(b, T, stages_lowp(node.stage), "lowp_loop", node.prev)
                ELSE after_lowp(b, [T EXCEPT !.ip = T.reset_point])
      [] T.pc = "lowp_fn" -> Store(b, T, stages_lowp(node.stage), "lowp_loop", node.prev)
      [] T.pc = "highp_sentinel" -> Store(b, T, just_return_highp, "highp_loop", T.stages)
      [] T.pc = "highp_loop" ->
           IF T.st = NULL THEN Move(b, T, "done", start_pipeline_highp)
           ELSE IF node.ctx # NULL
                THEN Store(b, T, CtxSlot(node.ctx), "highp_fn", T.st)
                ELSE Store(b, T, stages_highp(node.stage), "highp_loop", node.prev)
      [] T.pc = "highp_fn" -> Store(b, T, stages_highp(node.stage), "highp_loop", node.prev)

\* Thread t takes its next step.  `mixed` notes, for every other build into
\* the same buffer that has stored already, that a store of t came after.
build_thread(t) ==
    /\ th[t].pc # "done"
    /\ LET r == build_step(nodes, bufs[th[t].into], th[t]) IN
         /\ bufs' = [bufs EXCEPT ![th[t].into] = r.b]
         /\ th' = [u \in Threads |->
                     IF u = t THEN r.T
                     ELSE IF r.stored /\ th[u].into = th[t].into /\ th[u].pc # "lowp_sentinel"
                          THEN [th[u] EXCEPT !.mixed = TRUE]
                          ELSE th[u]]
    /\ UNCHANGED <<linkVars, execVars, ran>>

\* The arenas of n nodes: each node is appended to a list made before it.
Arenas(n) ==
    {nd \in [1..n -> [prev : 0..MaxConcNodes, stage : StockStage, ctx : 0..MaxConcNodes]] :
        \A i \in 1..n : nd[i].prev < i /\ nd[i].ctx \in Params(i)}

\* Two builds about to start: on lists of one arena, into two buffers or one.
\* The two are interchangeable, so the first is given the list made first.
InitConc ==
    /\ \E n \in 0..MaxConcNodes : nodes \in Arenas(n)
    /\ appended = NoAppend
    /\ lowp_impl \in SUBSET StockStage
    /\ buf = FreshBuf
    /\ prog = NoProg
    /\ pc = "idle"
    /\ call = NoCall
    /\ entered = <<>>
    /\ dx = 0
    /\ dy = 0
    /\ chunks = <<>>
    /\ bufs = [b \in Buffers |-> FreshBuf]
    /\ \E l1, l2 \in Lists : \E b2 \in Buffers :
         l1 <= l2 /\ th = <<Start(l1, 1), Start(l2, b2)>>
    /\ ran = NoRuns

NextConc == \E t \in Threads : build_thread(t)

SpecConc == InitConc /\ [][NextConc]_vars

\* What the build of list l stores and returns when it runs alone.
Alone(l) == build_pipeline(nodes, FreshBuf, l, bufferEnd)

\* Build t has returned what it returns alone: the same start, the same
\* entry point, and in its buffer from start to bufferEnd the same program.
SameAsAlone(t) ==
    /\ th[t].ip = Alone(th[t].stages).ip
    /\ th[t].fn = Alone(th[t].stages).fn
    /\ Region(bufs[th[t].into], th[t].ip) = Region(Alone(th[t].stages).b, th[t].ip)

\* The two lists have a node in common.
Sharing == ChainOf(nodes, th[1].stages) \cap ChainOf(nodes, th[2].stages) # {}

\* C12: of two builds running at the same time into two buffers, on lists
\* that may share nodes, with their steps interleaved in any order, each one
\* that has returned has produced the program and the tier it produces alone.
C12_DisjointBuildsAsAlone ==
    (th[1].into # th[2].into) =>
        \A t \in Threads : th[t].pc = "done" => SameAsAlone(t)

\* Both have returned, one of the highp tier after a lowp attempt given up,
\* the other of the lowp tier, on lists with a node in common.
C12_Witness ==
    /\ th[1].into # th[2].into
    /\ th[1].pc = "done"
    /\ th[2].pc = "done"
    /\ Sharing
    /\ th[1].stages # th[2].stages
    /\ th[1].fn = start_pipeline_lowp
    /\ th[2].fn = start_pipeline_highp
    /\ th[2].ip < bufferEnd - 2

\* ------------------------------------------------ runs one after another
\*
\* One program, built once and run over up to MaxRuns rectangles; `ran`
\* counts the runs and keeps what the first chunk of the first run replayed.

RerunXs == {0, 1}
RerunWs == {0, 1, MaxW}
RerunHs == {1, MaxH}

\* What the chunks so far show of the first run.
FirstSeen ==
    IF ran.runs = 1 /\ chunks # <<>>
    THEN <<[invoked |-> chunks[1].invoked, ret |-> chunks[1].ret]>>
    ELSE ran.first

NextRerun ==
    \/ /\ ran.runs = 0
       /\ skia_pipe_raster_build_pipeline(Len(nodes))
       /\ UNCHANGED <<concVars, ran>>
    \/ /\ prog.start < bufferEnd
       /\ ran.runs < MaxRuns
       /\ \E x \in RerunXs, w \in RerunWs, h \in RerunHs :
            skia_pipe_raster_run_pipeline(prog.start, prog.is_highp, x, 0, w, h)
       /\ ran' = [runs |-> ran.runs + 1, first |-> FirstSeen]
       /\ UNCHANGED concVars
    \/ full_chunk /\ UNCHANGED <<concVars, ran>>
    \/ tail_chunk /\ UNCHANGED <<concVars, ran>>
    \/ next_row /\ UNCHANGED <<concVars, ran>>
    \/ return /\ UNCHANGED <<concVars, ran>>

SpecRerun == InitExec /\ [][NextRerun]_vars

\* Every chunk of a later run replays what the first run replayed.
SameAsFirstRun ==
    ran.runs >= 2 =>
        \A i \in DOMAIN chunks : \A j \in DOMAIN ran.first :
            /\ chunks[i].invoked = ran.first[j].invoked
            /\ chunks[i].ret = ran.first[j].ret

\* C13: entering a program and every step of its run leave the program
\* buffer as it is; the program built once is run over one rectangle after
\* another, and every chunk of every later run replays the stage sequence,
\* with the parameter pointers, that the first run replayed.
C13_RunsLeaveProgram ==
    /\ [][(pc = "rows" \/ pc' = "rows") => (buf' = buf /\ prog' = prog)]_vars
    /\ [](ran.runs >= 1 => Program = Flat(BuiltSeq, TierOf(prog.is_highp)))
    /\ []SameAsFirstRun

\* A later run, returned after a full and a tail chunk of a program with
\* context pointers, the first run having run chunks too.
C13_Witness ==
    /\ ran.runs >= 2
    /\ ran.first # <<>>
    /\ pc = "returned"
    /\ Len(chunks) >= 2
    /\ chunks[1].lanes # chunks[Len(chunks)].lanes
    /\ \E k \in DOMAIN chunks[1].invoked : chunks[1].invoked[k].ctx # NULL

\* ------------------------------------------------------ the rollback

\* The slots the lowp attempt on list l stores to, seen on a fresh buffer.
LowpWrites(l) ==
    LET lo == lowp_loop(nodes, l, Push([b |-> FreshBuf, ip |-> bufferEnd], just_return_lowp),
                        bufferEnd)
    IN {i \in 1..BufSlots : lo.b[i] # Junk}

\* C14: whenever the lowp attempt is given up (a stage without a lowp
\* function at any position, any mix of contexts before it), the highp
\* attempt is made from bufferEnd again: the highp sentinel is in slot
\* bufferEnd-1, no slot from start to bufferEnd holds a lowp function or the
\* lowp sentinel, and every slot the lowp attempt stored to lies in the
\* program and holds what the highp attempt stored there.
C14_RollbackIsExact ==
    (Built /\ HasMissing(nodes, prog.stages)) =>
        /\ prog.tried = <<"lowp", "highp">>
        /\ buf[bufferEnd - 1] = just_return_highp
        /\ \A i \in prog.start..(bufferEnd - 1) : buf[i].tier # "lowp"
        /\ LowpWrites(prog.stages) \subseteq prog.start..(bufferEnd - 1)
        /\ \A i \in LowpWrites(prog.stages) :
              buf[i] = Flat(BuiltSeq, "highp")[i - prog.start + 1]

\* The stage appended first of three is the one without a lowp function: the
\* lowp attempt stored its sentinel, two functions and two contexts.
C14_Witness ==
    /\ Built
    /\ Len(BuiltSeq) = 3
    /\ BuiltSeq[1].stage \notin lowp_impl
    /\ Cardinality(LowpWrites(prog.stages)) = 5
    /\ prog.tried = <<"lowp", "highp">>

\* ------------------------------------------------------- the extent

\* The slots the highp attempt on list l stores to, seen on a fresh buffer.
HighpWrites(l) ==
    LET hi == highp_loop(nodes, l, Push([b |-> FreshBuf, ip |-> bufferEnd], just_return_highp))
    IN {i \in 1..BufSlots : hi.b[i] # Junk}

\* The stages of a sequence that have a context pointer.
WithCtx(seq) == {i \in DOMAIN seq : seq[i].ctx # NULL}

\* C15: a build of a list of n stages, c of them with a context pointer,
\* whether the lowp attempt completes, is given up or the highp attempt
\* follows, stores only to the n + c + 1 slots below bufferEnd, returns
\* start = bufferEnd - (n + c + 1), never goes below bufferEnd - (2n + 1),
\* and leaves every slot below the returned start as it was.
C15_BuildExtent ==
    /\ [](Built =>
            LET n == Len(BuiltSeq)
                c == Cardinality(WithCtx(BuiltSeq))
                extent == (bufferEnd - (n + c + 1))..(bufferEnd - 1)
            IN /\ prog.start = bufferEnd - (n + c + 1)
               /\ prog.start >= bufferEnd - (2 * n + 1)
               /\ LowpWrites(prog.stages) \subseteq extent
               /\ ("highp" \in {prog.tried[k] : k \in DOMAIN prog.tried}
                     => HighpWrites(prog.stages) = extent))
    /\ [][nodes' = nodes =>
            \A i \in 1..BufSlots : buf'[i] # buf[i] => i \in prog'.start..(bufferEnd - 1)]_vars

\* A two-stage list, one stage with a context, built by the highp attempt
\* after the lowp attempt was given up, over the remains of a longer program
\* that are still below its start.
C15_Witness ==
    /\ Built
    /\ Len(BuiltSeq) = 2
    /\ Cardinality(WithCtx(BuiltSeq)) = 1
    /\ prog.tried = <<"lowp", "highp">>
    /\ prog.start = bufferEnd - 4
    /\ buf[prog.start - 1] # Junk
    /\ buf[bufferEnd - 1] = just_return_highp

\* ------------------------------------------------------ the same buffer

\* The two builds write one buffer.
SameBuffer == th[1].into = th[2].into

\* The tiers of the slots of build t's region.
TiersIn(t) ==
    {bufs[th[t].into][i].tier : i \in th[t].ip..(bufferEnd - 1)} \cap Tiers

\* C16: two builds running at the same time into the same buffer race.  A
\* build that has returned holds the program it produces alone as long as no
\* store of the other came after its own first store; when the two select
\* different tiers, no interleaving leaves both with their programs; and the
\* state in which a returned build's region is not its program, slots of the
\* two tiers mixed in it, is reached (C16_Witness).
C16_SameBufferRace ==
    SameBuffer =>
        /\ \A t \in Threads : (th[t].pc = "done" /\ ~th[t].mixed) => SameAsAlone(t)
        /\ (/\ th[1].pc = "done"
            /\ th[2].pc = "done"
            /\ th[1].fn # th[2].fn)
           => \E t \in Threads : ~SameAsAlone(t)

\* Both builds have returned, and the region returned to the first is not the
\* program it produces alone: it holds slots of the two tiers.
C16_Witness ==
    /\ SameBuffer
    /\ th[1].pc = "done"
    /\ th[2].pc = "done"
    /\ th[1].stages # th[2].stages
    /\ ~SameAsAlone(1)
    /\ th[1].mixed
    /\ TiersIn(1) = Tiers

\* ------------------------------------------- what the buffer held before

\* The build of the list built last, into a buffer never written.
Fresh == build_pipeline(nodes, FreshBuf, prog.stages, bufferEnd)

\* C17: what a build returns and stores depends on the list and the stage
\* tables only.  After any sequence of earlier builds into the buffer, of
\* longer or shorter lists and of either tier, start, the tier and the slots
\* from start to bufferEnd are those of the build into a fresh buffer; and
\* the build of the list just built gives the same start, tier and program
\* again.
C17_BuildIgnoresOldContent ==
    /\ [](Built =>
            /\ prog.start = Fresh.ip
            /\ prog.is_highp = (Fresh.fn = start_pipeline_highp)
            /\ prog.tried = Fresh.tried
            /\ Program = Region(Fresh.b, Fresh.ip))
    /\ [][(Built /\ nodes' = nodes /\ prog'.stages = prog.stages) =>
            /\ prog' = prog
            /\ Region(buf', prog'.start) = Program
            /\ buf' = buf]_vars

\* A lowp program built over the remains of a longer highp program, which
\* still lie below its start.
C17_Witness ==
    /\ Built
    /\ ~prog.is_highp
    /\ Len(BuiltSeq) >= 1
    /\ \E i \in 1..(prog.start - 1) : buf[i].tier = "highp"
    /\ \A i \in prog.start..(bufferEnd - 1) : buf[i].tier # "highp"

\* -------------------------------------------------------- the far edges

====
